---- MODULE Spec2Model ----
(***************************************************************************)
(* Model of src/metadata.rs: DecoderWithMetadata pairs a rexiv2 Metadata   *)
(* store with one per-format image decoder (DecoderType) and forwards the  *)
(* ImageDecoder operations to it; Rexiv2ImageError unifies the failures of *)
(* the two libraries.  The rexiv2 store, std::fs::File and the per-format  *)
(* decoders of the image crate are external; they are modelled by small    *)
(* deterministic abstractions over a file system of a few paths.           *)
(***************************************************************************)
EXTENDS Integers, Sequences, FiniteSets, TLC

(* ------------------------------ bounds -------------------------------- *)
\* height (number of scanlines) of every image file of the modelled disk
MaxRows == 2
\* number of composites a behaviour may construct successfully
MaxInstances == 2

(* --------------------------- the environment -------------------------- *)
\* image::ImageFormat: the eight tags get_new_decoder handles, and the others
SupportedFormats == {"PNG", "JPEG", "PNM", "ICO", "TIFF", "TGA", "BMP", "GIF"}
OtherFormats == {"WEBP", "HDR"}
ImageFormat == SupportedFormats \cup OtherFormats

\* the paths of the modelled disk; "gone" names no file
Paths == {"a.png", "b.jpg", "c.pnm", "gone"}
\* the container format each file really has (the caller's tag may differ)
KindOf(path) ==
    CASE path = "a.png" -> "PNG"
      [] path = "b.jpg" -> "JPEG"
      [] path = "c.pnm" -> "PNM"
      [] OTHER -> "NONE"
Exists(path) == path # "gone"
\* targets gexiv2 can write metadata into (a PNM file has no place for tags)
Writable(path) == path \in {"a.png", "b.jpg"}

\* metadata tags, and the tags each file holds initially
Tags == {"Exif.Image.Artist", "Xmp.dc.title"}
InitialTags(path) ==
    CASE path = "a.png" -> {"Exif.Image.Artist"}
      [] path = "b.jpg" -> {"Xmp.dc.title"}
      [] OTHER -> {}

\* what the operating system answers to File::open of an existing path
IoOutcomes == {"ok", "NotFound", "PermissionDenied"}

(* ------------------------------ results ------------------------------- *)
NoErr == [variant |-> "none", msg |-> ""]
NoVal == << >>
Ok(v) == [ok |-> TRUE, val |-> v, err |-> NoErr]
Err(e) == [ok |-> FALSE, val |-> NoVal, err |-> e]
NoResult == [ok |-> TRUE, val |-> NoVal, err |-> NoErr]

\* upstream errors: rexiv2::Rexiv2Error, image::ImageError, std::io::Error
Rexiv2Error(msg) == [variant |-> "Rexiv2Error::Internal", msg |-> msg]
FormatError(msg) == [variant |-> "ImageError::FormatError", msg |-> msg]
ImageEnd == [variant |-> "ImageError::ImageEnd", msg |-> ""]
DimensionError == [variant |-> "ImageError::DimensionError", msg |-> ""]
IoError(kind) == [variant |-> "io::Error", msg |-> kind]
RustString(s) == [variant |-> "String", msg |-> s]

\* std::io::Error::description(): the fixed text of the error's kind
io_description(e) ==
    CASE e.msg = "NotFound" -> "entity not found"
      [] e.msg = "PermissionDenied" -> "permission denied"
      [] OTHER -> "other os error"

(* ------------------------- Rexiv2ImageError --------------------------- *)
MetadataError(e) == [kind |-> "MetadataError", payload |-> e]
DecoderError(e) == [kind |-> "DecoderError", payload |-> e]
Internal(s) == [kind |-> "Internal", payload |-> RustString(s)]
NoImageErr == [kind |-> "none", payload |-> NoErr]

From_Rexiv2Error(rexiv2error) == MetadataError(rexiv2error)
From_ImageError(error) == DecoderError(error)
\* mutant: the io error kept as a cause, the way the image crate wraps it
From_io_Error_as_decoder(error) == DecoderError(error)

From_io_Error(error) == Internal(io_description(error))

Some(x) == [some |-> TRUE, v |-> x]
None == [some |-> FALSE, v |-> NoErr]

cause(self) ==
    CASE self.kind = "MetadataError" -> Some(self.payload)
      [] self.kind = "DecoderError" -> Some(self.payload)
      [] OTHER -> None

description(self) == self.payload.msg

\* Result<_, Rexiv2ImageError>
ROk == [ok |-> TRUE, err |-> NoImageErr]
RErr(e) == [ok |-> FALSE, err |-> e]

(* -------------------- external: Metadata and File --------------------- *)
\* rexiv2::Metadata::new_from_path: reads the tag store of the file at path
Metadata_new_from_path(disk, path) ==
    IF Exists(path)
    THEN [ok |-> TRUE, store |-> disk[path], err |-> NoErr]
    ELSE [ok |-> FALSE, store |-> {}, err |-> Rexiv2Error("failed to open")]

\* rexiv2::Metadata::save_to_file: writes the store into the file at path
Metadata_save_to_file(store, disk, path) ==
    IF Writable(path)
    THEN [ok |-> TRUE, err |-> NoErr, disk |-> [disk EXCEPT ![path] = store]]
    ELSE [ok |-> FALSE, err |-> Rexiv2Error("failed to save"), disk |-> disk]

\* std::fs::File::open
File_open(path, io) ==
    IF ~Exists(path) THEN [ok |-> FALSE, err |-> IoError("NotFound")]
    ELSE IF io # "ok" THEN [ok |-> FALSE, err |-> IoError(io)]
    ELSE [ok |-> TRUE, err |-> NoErr]

(* ---------------- external: the per-format decoders ------------------- *)
\* A per-format decoder over an open file: which format's implementation
\* it is, the file, whether the header was parsed, and the next scanline.
NoDecoder == [format |-> "NONE", path |-> "", hdr |-> "unread", row |-> 0]
NewDecoder(format, path, hdr) ==
    [format |-> format, path |-> path, hdr |-> hdr, row |-> 0]

ImgWidth == 2
Channels(format) == IF format = "PNG" THEN 4 ELSE 3
RowLen(format) == ImgWidth * Channels(format)

\* the constructors that parse the header at once and so can fail
FallibleCtor(format) == format \in {"PNM", "ICO", "TIFF"}

Decoder_new(format, path) ==
    IF FallibleCtor(format) /\ KindOf(path) # format
    THEN [ok |-> FALSE, dec |-> NoDecoder, err |-> FormatError("bad signature")]
    ELSE [ok |-> TRUE, err |-> NoErr,
          dec |-> NewDecoder(format, path,
                             IF FallibleCtor(format) THEN "ok" ELSE "unread")]

ReadHeader(d) ==
    IF d.hdr = "unread"
    THEN [d EXCEPT !.hdr = IF KindOf(d.path) = d.format THEN "ok" ELSE "bad"]
    ELSE d

BadHeader(d) == [res |-> Err(FormatError("bad signature")), dec |-> d]
\* into_frames takes the decoder by value: it is gone whatever the answer
Consumed(r) == [r EXCEPT !.dec = NoDecoder]

\* one operation applied directly to a per-format decoder: result and next state
Decoder_call(dec, method, args) ==
    LET d == ReadHeader(dec) IN
    IF d.hdr # "ok"
    THEN IF method = "into_frames" THEN Consumed(BadHeader(d)) ELSE BadHeader(d)
    ELSE CASE method = "dimensions" ->
                [res |-> Ok(<<ImgWidth, MaxRows>>), dec |-> d]
           [] method = "colortype" ->
                [res |-> Ok(<<Channels(d.format)>>), dec |-> d]
           [] method = "row_len" ->
                [res |-> Ok(<<RowLen(d.format)>>), dec |-> d]
           [] method = "read_scanline" ->
                IF d.row >= MaxRows THEN [res |-> Err(ImageEnd), dec |-> d]
                ELSE IF args[1] < RowLen(d.format)
                THEN [res |-> Err(DimensionError), dec |-> d]
                ELSE [res |-> Ok(<<d.row>>), dec |-> [d EXCEPT !.row = d.row + 1]]
           [] method = "read_image" ->
                IF d.row > 0 THEN [res |-> Err(ImageEnd), dec |-> d]
                ELSE [res |-> Ok(<<ImgWidth * MaxRows * Channels(d.format)>>),
                      dec |-> [d EXCEPT !.row = MaxRows]]
           [] method = "is_animated" ->
                [res |-> Ok(<<0>>), dec |-> d]
           [] method = "load_rect" ->
                IF args[2] < d.row \/ args[2] + args[3] > MaxRows \/ args[4] > ImgWidth
                THEN [res |-> Err(DimensionError), dec |-> d]
                ELSE [res |-> Ok(<<args[3] * args[4] * Channels(d.format)>>),
                      dec |-> [d EXCEPT !.row = args[2] + args[3]]]
           [] method = "into_frames" ->
                Consumed([res |-> Ok(<<0>>), dec |-> d])
           [] OTHER -> [res |-> Err(FormatError("no such method")), dec |-> d]

(* ----------------------------- DecoderType ---------------------------- *)
\* enum DecoderType: the active variant and the decoder it holds
NoDecoderType == [variant |-> "NONE", dec |-> NoDecoder]
Variant(name, dec) == [variant |-> name, dec |-> dec]

\* an infallible constructor call wrapped in its variant
Wrapped(name, format, input_file) ==
    [res |-> ROk, decoder |-> Variant(name, Decoder_new(format, input_file).dec),
     open |-> {"file"}, ctor |-> format]

\* a fallible constructor call followed by `?`, wrapped in its variant
WrappedTry(name, format, input_file) ==
    LET c == Decoder_new(format, input_file) IN
    IF c.ok
    THEN [res |-> ROk, decoder |-> Variant(name, c.dec), open |-> {"file"},
          ctor |-> format]
    ELSE [res |-> RErr(From_ImageError(c.err)), decoder |-> NoDecoderType,
          open |-> {}, ctor |-> format]

\* mutant: an unknown tag falls back to the PNG decoder
get_new_decoder_defaulting(format, input_file) ==
    IF FallibleCtor(format) THEN WrappedTry(format, format, input_file)
    ELSE IF format \in SupportedFormats THEN Wrapped(format, format, input_file)
    ELSE Wrapped("PNG", "PNG", input_file)

\* mutant: the unknown-tag arm returns without letting go of the file
get_new_decoder_leaking(format, input_file) ==
    IF FallibleCtor(format) THEN WrappedTry(format, format, input_file)
    ELSE IF format \in SupportedFormats THEN Wrapped(format, format, input_file)
    ELSE [res |-> RErr(Internal("Unsupported file format")),
          decoder |-> NoDecoderType, open |-> {"file"}, ctor |-> "NONE"]

\* mutant: the TGA and BMP arms wrap each other's variant
get_new_decoder_swapped(format, input_file) ==
    IF FallibleCtor(format) THEN WrappedTry(format, format, input_file)
    ELSE IF format = "TGA" THEN Wrapped("BMP", "TGA", input_file)
    ELSE IF format = "BMP" THEN Wrapped("TGA", "BMP", input_file)
    ELSE IF format \in SupportedFormats THEN Wrapped(format, format, input_file)
    ELSE [res |-> RErr(Internal("Unsupported file format")),
          decoder |-> NoDecoderType, open |-> {}, ctor |-> "NONE"]

\* DecoderWithMetadata::get_new_decoder; input_file is the path of the open
\* File, open is what is left open of it when the call returns
get_new_decoder(format, input_file) ==
    CASE format = "PNG" -> Wrapped("PNG", "PNG", input_file)
      [] format = "JPEG" -> Wrapped("JPEG", "JPEG", input_file)
      [] format = "PNM" -> WrappedTry("PNM", "PNM", input_file)
      [] format = "ICO" -> WrappedTry("ICO", "ICO", input_file)
      [] format = "TIFF" -> WrappedTry("TIFF", "TIFF", input_file)
      [] format = "TGA" -> Wrapped("TGA", "TGA", input_file)
      [] format = "BMP" -> Wrapped("BMP", "BMP", input_file)
      [] format = "GIF" -> Wrapped("GIF", "GIF", input_file)
      [] OTHER -> [res |-> RErr(Internal("Unsupported file format")),
                   decoder |-> NoDecoderType, open |-> {}, ctor |-> "NONE"]

\* mutant: the file is opened before the metadata is loaded
new_open_first(disk, path, format, io) ==
    LET f == File_open(path, io) IN
    IF ~f.ok
    THEN [res |-> RErr(From_io_Error(f.err)), metadata |-> {},
          decoder |-> NoDecoderType, calls |-> <<"File::open">>, alive |-> {}]
    ELSE
    LET m == Metadata_new_from_path(disk, path) IN
    IF ~m.ok
    THEN [res |-> RErr(From_Rexiv2Error(m.err)), metadata |-> {},
          decoder |-> NoDecoderType,
          calls |-> <<"File::open", "Metadata::new_from_path">>, alive |-> {}]
    ELSE
    LET g == get_new_decoder(format, path)
        made == <<"File::open", "Metadata::new_from_path">>
                  \o (IF g.ctor = "NONE" THEN << >> ELSE <<g.ctor>>)
    IN
    IF ~g.res.ok
    THEN [res |-> g.res, metadata |-> {}, decoder |-> NoDecoderType,
          calls |-> made, alive |-> g.open]
    ELSE [res |-> ROk, metadata |-> m.store, decoder |-> g.decoder,
          calls |-> made, alive |-> {"metadata"} \cup g.open]

\* DecoderWithMetadata::new: the result, the composite's two fields, the
\* external calls made in order, and the resources alive when it returns
new(disk, path, format, io) ==
    LET m == Metadata_new_from_path(disk, path) IN
    IF ~m.ok
    THEN [res |-> RErr(From_Rexiv2Error(m.err)), metadata |-> {},
          decoder |-> NoDecoderType, calls |-> <<"Metadata::new_from_path">>,
          alive |-> {}]
    ELSE
    LET f == File_open(path, io) IN
    IF ~f.ok
    THEN [res |-> RErr(From_io_Error(f.err)), metadata |-> {},
          decoder |-> NoDecoderType,
          calls |-> <<"Metadata::new_from_path", "File::open">>,
          alive |-> {"metadata"} \ {"metadata"}]
    ELSE
    LET g == get_new_decoder(format, path)
        made == <<"Metadata::new_from_path", "File::open">>
                  \o (IF g.ctor = "NONE" THEN << >> ELSE <<g.ctor>>)
    IN
    IF ~g.res.ok
    THEN [res |-> g.res, metadata |-> {}, decoder |-> NoDecoderType,
          calls |-> made, alive |-> ({"metadata"} \cup g.open) \ {"metadata"}]
    ELSE [res |-> ROk, metadata |-> m.store, decoder |-> g.decoder,
          calls |-> made, alive |-> {"metadata"} \cup g.open]

\* mutant: only the Exif tags of the store are written
save_metadata_exif_only(metadata, disk, path) ==
    LET s == Metadata_save_to_file(metadata \cap {"Exif.Image.Artist"}, disk, path) IN
    IF s.ok THEN [res |-> ROk, disk |-> s.disk]
    ELSE [res |-> RErr(From_Rexiv2Error(s.err)), disk |-> s.disk]

\* DecoderWithMetadata::save_metadata
save_metadata(metadata, disk, path) ==
    LET s == Metadata_save_to_file(metadata, disk, path) IN
    IF s.ok THEN [res |-> ROk, disk |-> s.disk]
    ELSE [res |-> RErr(From_Rexiv2Error(s.err)), disk |-> s.disk]

\* mutant: the macro has a third forwarding arm, for GIF
select_decoder_variant_gif(enumeration, method, args) ==
    IF enumeration.variant \in {"PNG", "JPEG", "GIF"}
    THEN LET r == Decoder_call(enumeration.dec, method, args) IN
         [res |-> r.res, decoder |-> [enumeration EXCEPT !.dec = r.dec],
          reached |-> TRUE]
    ELSE [res |-> Err(FormatError("Unsupported file format")),
          decoder |-> enumeration, reached |-> FALSE]

\* macro select_decoder_variant: the PNG and JPEG arms call the method on
\* the held decoder, the catch-all arm answers without touching it
select_decoder_variant(enumeration, method, args) ==
    CASE enumeration.variant = "PNG" ->
            LET r == Decoder_call(enumeration.dec, method, args) IN
            [res |-> r.res, decoder |-> [enumeration EXCEPT !.dec = r.dec],
             reached |-> TRUE]
      [] enumeration.variant = "JPEG" ->
            LET r == Decoder_call(enumeration.dec, method, args) IN
            [res |-> r.res, decoder |-> [enumeration EXCEPT !.dec = r.dec],
             reached |-> TRUE]
      [] OTHER ->
            [res |-> Err(FormatError("Unsupported file format")),
             decoder |-> enumeration, reached |-> FALSE]

\* impl ImageDecoder for DecoderType
DecoderType_dimensions(self, args) ==
    select_decoder_variant(self, "dimensions", args)
DecoderType_colortype(self, args) ==
    select_decoder_variant(self, "colortype", args)
DecoderType_row_len(self, args) ==
    select_decoder_variant(self, "row_len", args)
DecoderType_read_scanline(self, args) ==
    select_decoder_variant(self, "read_scanline", args)
DecoderType_read_image(self, args) ==
    select_decoder_variant(self, "read_image", args)
DecoderType_is_animated(self, args) ==
    select_decoder_variant(self, "is_animated", args)
\* takes self by value: whatever the arm, the enum is gone afterwards
DecoderType_into_frames(self, args) ==
    [select_decoder_variant(self, "into_frames", args)
        EXCEPT !.decoder = NoDecoderType]
DecoderType_load_rect(self, args) ==
    select_decoder_variant(self, "load_rect", args)

\* impl ImageDecoder for DecoderWithMetadata: self is [metadata, decoder];
\* each answers the result, the composite afterwards and whether the caller
\* still owns it
Composite(metadata, decoder) == [metadata |-> metadata, decoder |-> decoder]
Forward(self, r, owner) ==
    [res |-> r.res, self |-> [self EXCEPT !.decoder = r.decoder],
     reached |-> r.reached, owner |-> owner]

\* mutant: dimensions takes the metadata store out of the composite
DecoderWithMetadata_dimensions_takes_store(self, args) ==
    [Forward(self, DecoderType_dimensions(self.decoder, args), "held")
        EXCEPT !.self.metadata = {}]

\* mutant: row_len forwards to the method next to it
DecoderWithMetadata_row_len_as_colortype(self, args) ==
    Forward(self, DecoderType_colortype(self.decoder, args), "held")

\* mutant: into_frames borrows the composite instead of consuming it
DecoderWithMetadata_into_frames_borrowing(self, args) ==
    Forward(self, select_decoder_variant(self.decoder, "is_animated", args), "held")

DecoderWithMetadata_dimensions(self, args) ==
    Forward(self, DecoderType_dimensions(self.decoder, args), "held")
DecoderWithMetadata_colortype(self, args) ==
    Forward(self, DecoderType_colortype(self.decoder, args), "held")
DecoderWithMetadata_row_len(self, args) ==
    Forward(self, DecoderType_row_len(self.decoder, args), "held")
DecoderWithMetadata_read_scanline(self, args) ==
    Forward(self, DecoderType_read_scanline(self.decoder, args), "held")
DecoderWithMetadata_read_image(self, args) ==
    Forward(self, DecoderType_read_image(self.decoder, args), "held")
DecoderWithMetadata_is_animated(self, args) ==
    Forward(self, DecoderType_is_animated(self.decoder, args), "held")
\* takes self by value: the decoder moves into the call, the metadata store
\* is dropped when the method returns
DecoderWithMetadata_into_frames(self, args) ==
    [Forward(self, DecoderType_into_frames(self.decoder, args), "moved")
        EXCEPT !.self.metadata = {}]
DecoderWithMetadata_load_rect(self, args) ==
    Forward(self, DecoderType_load_rect(self.decoder, args), "held")

(* --------------------------- the state machine ------------------------ *)
VARIABLES
    disk,        \* the tag store held by the file at each path
    owner,       \* the caller's binding: "none", "held" or "moved"
    metadata,    \* field metadata of the composite
    decoder,     \* field decoder of the composite
    resources,   \* the store and file handle alive on behalf of the caller
    inst,        \* number of composites constructed so far; the live one's id
    framed,      \* ids of the composites into_frames was applied to
    reqPath,     \* arguments of the last call of new
    reqFormat,
    reqIo,       \* what File::open was answered during the last call of new
    calls,       \* external calls the last call of new made, in order
    ctorResult,  \* what the last call of new returned
    saveResult,  \* what the last call of save_metadata returned
    opResult,    \* what the last decode operation returned
    reached,     \* whether the last decode operation reached a format decoder
    bare,        \* a format decoder on the same file, driven directly
    bareResult,  \* what the same operation returned on the bare decoder
    lastOp       \* name of the last operation; the results of the operations
                 \* before it are forgotten

vars == <<disk, owner, metadata, decoder, resources, inst, framed, reqPath,
          reqFormat, reqIo, calls, ctorResult, saveResult, opResult, reached, bare,
          bareResult, lastOp>>

MutOps == {"dimensions", "colortype", "row_len", "read_scanline",
           "read_image", "is_animated", "load_rect"}
DecodeOps == MutOps \cup {"into_frames"}

\* argument values the caller is given to choose from
BufLens == {0, RowLen("JPEG"), RowLen("PNG")}
Rects == {<<0, y, length, width>> :
            y \in 0 .. 1, length \in 1 .. MaxRows, width \in {1, ImgWidth + 1}}

Init ==
    /\ disk = [p \in Paths |-> InitialTags(p)]
    /\ owner = "none"
    /\ metadata = {}
    /\ decoder = NoDecoderType
    /\ resources = {}
    /\ inst = 0
    /\ framed = {}
    /\ reqPath = ""
    /\ reqFormat = "NONE"
    /\ reqIo = "ok"
    /\ calls = << >>
    /\ ctorResult = ROk
    /\ saveResult = ROk
    /\ opResult = NoResult
    /\ reached = FALSE
    /\ bare = NoDecoder
    /\ bareResult = NoResult
    /\ lastOp = "init"

\* let composite = DecoderWithMetadata::new(path, format)
Call_new ==
    /\ owner # "held"
    /\ inst < MaxInstances
    /\ \E path \in Paths, format \in ImageFormat, io \in IoOutcomes :
         LET r == new(disk, path, format, io) IN
         /\ reqPath' = path
         /\ reqFormat' = format
         /\ reqIo' = io
         /\ ctorResult' = r.res
         /\ calls' = r.calls
         /\ metadata' = r.metadata
         /\ decoder' = r.decoder
         /\ resources' = r.alive
         /\ owner' = IF r.res.ok THEN "held" ELSE "none"
         /\ inst' = IF r.res.ok THEN inst + 1 ELSE inst
         /\ bare' = IF r.res.ok THEN Decoder_new(format, path).dec ELSE NoDecoder
    /\ lastOp' = "new"
    /\ saveResult' = ROk
    /\ opResult' = NoResult
    /\ bareResult' = NoResult
    /\ reached' = FALSE
    /\ UNCHANGED <<disk, framed>>

\* composite.save_metadata(path)
Call_save_metadata ==
    /\ owner = "held"
    /\ \E path \in Paths :
         LET r == save_metadata(metadata, disk, path) IN
         /\ saveResult' = r.res
         /\ disk' = r.disk
    /\ lastOp' = "save_metadata"
    /\ calls' = << >>
    /\ reqIo' = "ok"
    /\ ctorResult' = ROk
    /\ opResult' = NoResult
    /\ bareResult' = NoResult
    /\ reached' = FALSE
    /\ UNCHANGED <<owner, metadata, decoder, resources, inst, framed, reqPath,
                   reqFormat, bare>>

\* composite.metadata.set_tag_string(tag, ..): the field is public
Call_set_tag ==
    /\ owner = "held"
    /\ \E tag \in Tags : metadata' = metadata \cup {tag}
    /\ lastOp' = "set_tag"
    /\ calls' = << >>
    /\ reqIo' = "ok"
    /\ ctorResult' = ROk
    /\ saveResult' = ROk
    /\ opResult' = NoResult
    /\ bareResult' = NoResult
    /\ reached' = FALSE
    /\ UNCHANGED <<disk, owner, decoder, resources, inst, framed, reqPath,
                   reqFormat, bare>>

\* the composite goes out of scope
Drop ==
    /\ owner = "held"
    /\ owner' = "none"
    /\ metadata' = {}
    /\ decoder' = NoDecoderType
    /\ resources' = {}
    /\ bare' = NoDecoder
    /\ lastOp' = "drop"
    /\ calls' = << >>
    /\ reqIo' = "ok"
    /\ ctorResult' = ROk
    /\ saveResult' = ROk
    /\ opResult' = NoResult
    /\ bareResult' = NoResult
    /\ reached' = FALSE
    /\ UNCHANGED <<disk, inst, framed, reqPath, reqFormat>>

\* the effect of one decode operation whose outcome on the composite is out
Decode(op, args, out) ==
    /\ owner = "held"
    /\ opResult' = out.res
    /\ reached' = out.reached
    /\ metadata' = out.self.metadata
    /\ decoder' = out.self.decoder
    /\ owner' = out.owner
    /\ resources' = IF out.owner = "held" THEN resources ELSE {}
    /\ framed' = IF op = "into_frames" THEN framed \cup {inst} ELSE framed
    /\ bare' = Decoder_call(bare, op, args).dec
    /\ bareResult' = Decoder_call(bare, op, args).res
    /\ lastOp' = op
    /\ calls' = << >>
    /\ reqIo' = "ok"
    /\ ctorResult' = ROk
    /\ saveResult' = ROk
    /\ UNCHANGED <<disk, inst, reqPath, reqFormat>>

Self == Composite(metadata, decoder)

Call_dimensions ==
    Decode("dimensions", << >>, DecoderWithMetadata_dimensions(Self, << >>))
Call_colortype ==
    Decode("colortype", << >>, DecoderWithMetadata_colortype(Self, << >>))
Call_row_len ==
    Decode("row_len", << >>, DecoderWithMetadata_row_len(Self, << >>))
Call_read_scanline ==
    \E n \in BufLens :
        Decode("read_scanline", <<n>>, DecoderWithMetadata_read_scanline(Self, <<n>>))
Call_read_image ==
    Decode("read_image", << >>, DecoderWithMetadata_read_image(Self, << >>))
Call_is_animated ==
    Decode("is_animated", << >>, DecoderWithMetadata_is_animated(Self, << >>))
Call_into_frames ==
    Decode("into_frames", << >>, DecoderWithMetadata_into_frames(Self, << >>))
Call_load_rect ==
    \E r \in Rects :
        Decode("load_rect", r, DecoderWithMetadata_load_rect(Self, r))

Next ==
    \/ Call_new
    \/ Call_save_metadata
    \/ Call_set_tag
    \/ Drop
    \/ Call_dimensions
    \/ Call_colortype
    \/ Call_row_len
    \/ Call_read_scanline
    \/ Call_read_image
    \/ Call_is_animated
    \/ Call_into_frames
    \/ Call_load_rect

Spec == Init /\ [][Next]_vars

(* ------------------------------ properties ---------------------------- *)
Unsupported == Internal("Unsupported file format")
UnsupportedDecode == Err(FormatError("Unsupported file format"))
Stubbed == {"PNM", "ICO", "TIFF", "TGA", "BMP", "GIF"}
Forwarded == {"PNG", "JPEG"}
\* the first two steps of the last call of new, as the environment answered
MetadataLoads == Exists(reqPath)
FileOpens == Exists(reqPath) /\ reqIo = "ok"
NewFailed == lastOp = "new" /\ ~ctorResult.ok
NewSucceeded == lastOp = "new" /\ ctorResult.ok

\* C1 as stated: for every path and every tag outside the eight supported
\* ones, new fails with Internal("Unsupported file format") and returns no
\* composite.
C1_AnyPathUnsupported ==
    (lastOp = "new" /\ reqFormat \notin SupportedFormats)
        => /\ ctorResult = RErr(Unsupported)
           /\ owner # "held"
           /\ decoder = NoDecoderType

\* C1 amended: for every path and every tag outside the eight supported ones,
\* new fails, returns no composite and builds no decoder; when the metadata of
\* the path loads and the file opens, the error is exactly
\* Internal("Unsupported file format").
C1_UnsupportedTag ==
    (lastOp = "new" /\ reqFormat \notin SupportedFormats)
        => /\ ~ctorResult.ok
           /\ owner # "held"
           /\ decoder = NoDecoderType
           /\ (MetadataLoads /\ FileOpens) => ctorResult = RErr(Unsupported)

C1_Witness ==
    /\ lastOp = "new"
    /\ reqFormat = "WEBP"
    /\ reqPath = "a.png"
    /\ reqIo = "ok"
    /\ ctorResult = RErr(Unsupported)

\* C2: new loads the metadata, opens the file and constructs the decoder in
\* that order, and the first failing step decides the error kind and ends the
\* call: MetadataError without opening the file, Internal without a
\* constructor call, DecoderError from the PNM, ICO and TIFF constructors;
\* with the tags PNG, JPEG, TGA, BMP and GIF it succeeds whenever the first
\* two steps do.
C2_StepOrder ==
    lastOp = "new" =>
        /\ ~MetadataLoads =>
              /\ ~ctorResult.ok
              /\ ctorResult.err.kind = "MetadataError"
              /\ calls = <<"Metadata::new_from_path">>
              /\ decoder = NoDecoderType
        /\ (MetadataLoads /\ ~FileOpens) =>
              /\ ~ctorResult.ok
              /\ ctorResult.err.kind = "Internal"
              /\ calls = <<"Metadata::new_from_path", "File::open">>
              /\ decoder = NoDecoderType
        /\ (FileOpens /\ reqFormat \in {"PNM", "ICO", "TIFF"}) =>
              /\ calls = <<"Metadata::new_from_path", "File::open", reqFormat>>
              /\ ~ctorResult.ok => ctorResult.err.kind = "DecoderError"
        /\ (FileOpens /\ reqFormat \in {"PNG", "JPEG", "TGA", "BMP", "GIF"}) =>
              /\ ctorResult.ok
              /\ calls = <<"Metadata::new_from_path", "File::open", reqFormat>>

C2_Witness ==
    /\ lastOp = "new"
    /\ reqPath = "b.jpg"
    /\ reqFormat = "TIFF"
    /\ reqIo = "ok"
    /\ ctorResult.err.kind = "DecoderError"
    /\ Len(calls) = 3

\* C3: on a composite built with PNM, ICO, TIFF, TGA, BMP or GIF every decode
\* operation, into_frames included, returns the decode error
\* FormatError("Unsupported file format") and never reaches the format's
\* decoder, which stays as its constructor left it.
C3_StubbedFormats ==
    /\ (lastOp \in DecodeOps /\ reqFormat \in Stubbed)
          => (opResult = UnsupportedDecode /\ ~reached)
    /\ (owner = "held" /\ reqFormat \in Stubbed)
          => decoder.dec = Decoder_new(reqFormat, reqPath).dec

C3_Witness ==
    /\ lastOp = "read_scanline"
    /\ reqFormat = "PNM"
    /\ opResult = UnsupportedDecode
    /\ bare.row > 0

\* C4: on a composite whose variant is PNG or JPEG every decode operation
\* returns what the format's decoder returns for the same call on the same
\* file after the same earlier calls, and leaves the held decoder in the state
\* the direct call leaves it in.
C4_Transparent ==
    /\ (lastOp \in DecodeOps /\ reqFormat \in Forwarded)
          => (opResult = bareResult /\ reached)
    /\ (reqFormat \in Forwarded /\ (owner = "held" \/ lastOp \in DecodeOps))
          => decoder.dec = bare

C4_Witness ==
    /\ lastOp = "read_scanline"
    /\ reqFormat = "JPEG"
    /\ opResult = Ok(<<1>>)
    /\ decoder.dec.row = 2

\* what save_metadata would do on each target in a state with this store
SaveOutcomes(store, files) == [t \in Paths |-> save_metadata(store, files, t)]

\* C5 as stated: after each of the eight decode operations, into_frames
\* included, save_metadata can still be invoked on the composite, with the
\* outcome it would have had before the operation.
C5_SaveAfterAnyDecode ==
    [][lastOp' \in DecodeOps
          => /\ owner' = "held"
             /\ SaveOutcomes(metadata', disk') = SaveOutcomes(metadata, disk)]_vars

\* C5 amended: after each of the seven decode operations that borrow the
\* composite (dimensions, colortype, row_len, read_scanline, read_image,
\* is_animated, load_rect), successful or not, save_metadata can still be
\* invoked with the outcome it would have had before the operation;
\* into_frames consumes the composite, so no save_metadata follows it.
C5_SaveAfterBorrowingDecode ==
    [][/\ lastOp' \in MutOps
            => /\ owner' = "held"
               /\ SaveOutcomes(metadata', disk') = SaveOutcomes(metadata, disk)
       /\ lastOp' = "into_frames" => owner' = "moved"
       /\ lastOp' = "save_metadata" => owner = "held"]_vars

C5_Witness ==
    /\ lastOp = "save_metadata"
    /\ saveResult.ok
    /\ decoder.dec.row = MaxRows
    /\ disk["b.jpg"] = InitialTags("a.png")

\* C6: a decode operation leaves the store of the composite it returns to the
\* caller as it was, and the disk untouched; save_metadata leaves the store
\* and the decoder as they were and, when it succeeds, writes exactly the
\* store to its one target, so that successive saves write the same tags.
C6_Independent ==
    [][/\ (lastOp' \in DecodeOps /\ owner' = "held")
            => (metadata' = metadata /\ disk' = disk)
       /\ lastOp' = "save_metadata"
            => /\ metadata' = metadata
               /\ decoder' = decoder
               /\ bare' = bare
               /\ saveResult'.ok
                    => \E t \in Paths : disk' = [disk EXCEPT ![t] = metadata]
               /\ ~saveResult'.ok => disk' = disk]_vars

C6_Witness ==
    /\ lastOp = "save_metadata"
    /\ saveResult.ok
    /\ metadata = Tags
    /\ disk["a.png"] = Tags
    /\ disk["b.jpg"] = Tags
    /\ decoder.dec.row > 0

\* C7: a decode operation is only ever applied to a composite into_frames was
\* not applied to before, so into_frames acts at most once on each composite
\* and nothing acts on it afterwards.
C7_FramesOnce ==
    [][lastOp' \in DecodeOps
          => /\ inst \notin framed
             /\ inst' = inst
             /\ lastOp' = "into_frames" => (owner' = "moved" /\ inst \in framed')]_vars

C7_Witness ==
    /\ inst = 2
    /\ 1 \in framed
    /\ 2 \notin framed
    /\ lastOp = "read_image"

\* the values of the three upstream error types met in the model
Rexiv2Errors == {Rexiv2Error("failed to open"), Rexiv2Error("failed to save")}
ImageErrors == {FormatError("bad signature"), FormatError("Unsupported file format"),
                ImageEnd, DimensionError}
IoErrors == {IoError("NotFound"), IoError("PermissionDenied")}
Rexiv2ImageErrors ==
    {MetadataError(e) : e \in Rexiv2Errors} \cup {DecoderError(e) : e \in ImageErrors}
        \cup {Internal(io_description(e)) : e \in IoErrors} \cup {Unsupported}

\* C8: cause() is the wrapped error for MetadataError and DecoderError and
\* nothing for Internal; a failed file open becomes an Internal error without
\* cause; a Rexiv2Error or an ImageError is kept unchanged as the payload.
C8_Cause ==
    /\ \A e \in Rexiv2ImageErrors :
          cause(e) = IF e.kind \in {"MetadataError", "DecoderError"}
                     THEN Some(e.payload) ELSE None
    /\ \A e \in Rexiv2Errors :
          /\ From_Rexiv2Error(e) = MetadataError(e)
          /\ cause(From_Rexiv2Error(e)) = Some(e)
    /\ \A e \in ImageErrors :
          /\ From_ImageError(e) = DecoderError(e)
          /\ cause(From_ImageError(e)) = Some(e)
    /\ \A e \in IoErrors :
          /\ From_io_Error(e).kind = "Internal"
          /\ cause(From_io_Error(e)) = None
    /\ (NewFailed /\ MetadataLoads /\ ~FileOpens)
          => (ctorResult.err.kind = "Internal" /\ cause(ctorResult.err) = None)
    /\ (NewFailed /\ ~MetadataLoads)
          => cause(ctorResult.err) = Some(Metadata_new_from_path(disk, reqPath).err)
    /\ (lastOp = "save_metadata" /\ ~saveResult.ok)
          => cause(saveResult.err) = Some(Rexiv2Error("failed to save"))

C8_Witness ==
    /\ NewFailed
    /\ reqPath = "a.png"
    /\ reqIo = "PermissionDenied"
    /\ ctorResult.err = Internal("permission denied")
    /\ cause(ctorResult.err) = None

\* C9: when new fails, at whichever step, the store and the file handle the
\* call acquired are released and the caller holds no composite; when it
\* succeeds the caller holds one store and one decoder bound to the open file.
C9_NoLeak ==
    /\ NewFailed
          => /\ resources = {}
             /\ owner # "held"
             /\ metadata = {}
             /\ decoder = NoDecoderType
    /\ NewSucceeded
          => /\ resources = {"metadata", "file"}
             /\ owner = "held"
             /\ metadata = disk[reqPath]
             /\ decoder # NoDecoderType
             /\ decoder.dec.path = reqPath
    /\ owner # "held" => resources = {}

C9_Witness ==
    /\ NewFailed
    /\ reqFormat = "HDR"
    /\ FileOpens
    /\ Len(calls) = 2
    /\ resources = {}

\* C10: while a composite is live its active variant, and the decoder the
\* variant holds, are those of the format tag new was called with, whatever
\* operations were applied since.
C10_VariantMatchesTag ==
    owner = "held"
        => /\ reqFormat \in SupportedFormats
           /\ decoder.variant = reqFormat
           /\ decoder.dec.format = reqFormat

C10_Witness ==
    /\ owner = "held"
    /\ reqFormat = "TGA"
    /\ decoder.variant = "TGA"
    /\ lastOp = "load_rect"

====
